---------------------------- MODULE Spec2Model ----------------------------
(***************************************************************************)
(* A model of the payment workflow sample: the PaymentPlugin tools         *)
(* (src/src/plugins/implementations.py), their dispatch by name            *)
(* (src/src/plugins/foundry_wrappers.py, src/src/main.py), the client-side *)
(* tool-call dispatch loop (src/src/workflows/runner.py) and the executors *)
(* of the code-based workflow graph (src/src/workflow_code.py).            *)
(*                                                                         *)
(* Five specifications share the variables: Spec is the dispatch loop,     *)
(* PluginSpec the tools called directly, WorkflowSpec the executors and    *)
(* runs of the workflow graph, MonitorSpec the stream monitor reading one  *)
(* turn event by event, ConcurrentSpec runs side by side on one plugin.    *)
(*                                                                         *)
(* Money is counted in hundredths: 20.50 is 2050.  Every amount the model  *)
(* draws is a multiple of 0.50, for which float arithmetic is exact.       *)
(* Python's None is the empty tuple and a present value x is <<x>>.        *)
(* A Python object of a pydantic class is [cls |-> name, fields |-> rec];  *)
(* a dict is a function from keys; JSON text of an object is the tuple of  *)
(* its <<key, value>> pairs in order.                                      *)
(***************************************************************************)
EXTENDS Integers, Sequences, FiniteSets, TLC

VARIABLES
    accounts,        \* PaymentPlugin._accounts: account id -> AccountInfo
    receipts,        \* PaymentPlugin._receipts: receipt id -> ReceiptInfo
    last,            \* history: the last tool call, the data it found and its outcome
    pc,              \* execute_async: "idle", "turn", "monitoring", "invoke",
                     \* "invoking", "done" or "aborted"
    active,          \* the units of work in progress: "turn" or a call id
    user_input,      \* execute_async's argument
    current_input,   \* execute_async's local
    tool_outputs,    \* execute_async's local: None or the outputs batch
    function_calls,  \* execute_async's local: the last monitor result
    idx,             \* position of the for loop in function_calls
    error,           \* the exception that ended the run ("" when none)
    runs,            \* history: execute_async calls so far
    turnNo,          \* history: turns submitted in this run
    submitted,       \* history: turns submitted in all runs
    emptyTurns,      \* history: turns of this run whose monitor result was empty
    lastInput,       \* history: request_params["input"] of the last turn
    prevCalls,       \* history: the monitor result of the turn before the last
    olderIds,        \* history: call ids completed in this run before prevCalls
    invoked,         \* history: call ids handed to invoke_function in this run
    batchStart,      \* history: the plugin's data when the last batch was returned
    wfState,         \* the WorkflowState the executors pass along
    wfStatus,        \* the run: "NotStarted", "Running", "Idle" or "Completed"
    wfCurrent,       \* ids of the executors that hold an undelivered message
    wfOutputs,       \* the outputs yielded in this run, in order
    wfRan,           \* history: ids of the executors that ran in this run, in order
    wfLast,          \* history: the last handler of this run, the state it got, what it did
    svcState,        \* ServiceSelectionExecutor.state
    wfRunNo,         \* history: runs of the workflow started so far
    wfEntry,         \* history: the executor this run's first message went to
    mon,             \* monitor_workflow_async's locals and what it has printed
    events,          \* history: the events of the stream read so far
    monResult,       \* None, or the list monitor_workflow_async returned
    tasks,           \* concurrent runs: where each is and the call it was asked for
    paid,            \* history: the payments that succeeded, in order
    cancelSignal     \* None, or where the run was when its caller asked to cancel it

pluginVars == <<accounts, receipts>>
runnerVars == <<pc, active, user_input, current_input, tool_outputs, function_calls, idx, error,
                runs, turnNo, submitted, emptyTurns, lastInput, prevCalls,
                olderIds, invoked, batchStart>>
wfVars == <<wfState, wfStatus, wfCurrent, wfOutputs, wfRan, wfLast, svcState, wfRunNo,
           wfEntry>>
monVars == <<mon, events, monResult>>
taskVars == <<tasks, paid>>
callerVars == <<cancelSignal>>
vars == <<accounts, receipts, last, pc, active, user_input, current_input, tool_outputs,
          function_calls, idx, error, runs, turnNo, submitted, emptyTurns, lastInput,
          prevCalls, olderIds, invoked, batchStart,
          wfState, wfStatus, wfCurrent, wfOutputs, wfRan, wfLast, svcState, wfRunNo,
          wfEntry, mon, events, monResult, tasks, paid, cancelSignal>>

(***************************************************************************)
(* Bounds of the model.                                                    *)
(***************************************************************************)
MaxReceipts == 2     \* payments recorded in one behaviour
MaxTurns == 3        \* turns submitted in one behaviour
MaxBatch == 2        \* function-call items in one turn's stream
MaxRuns == 2         \* execute_async calls in one behaviour
MaxWorkflowRuns == 2 \* runs of the built workflow in one behaviour

None == <<>>
Some(x) == <<x>>
IsNone(o) == o = <<>>
Get(o) == o[1]

\* Python values carry their class: an object of a pydantic class, a list, a dict
\* (its keys in insertion order and its mapping).
Obj(cls, fields) == [cls |-> cls, fields |-> fields]
PyList(items) == [cls |-> "list", items |-> items]
PyDict(keys, val) == [cls |-> "dict", keys |-> keys, val |-> val]
PyStr(text) == [cls |-> "str", text |-> text]
Range(seq) == {seq[j] : j \in 1..Len(seq)}

(***************************************************************************)
(* The mock data of PaymentPlugin.__init__.                                *)
(***************************************************************************)
Currency == "S/."

Services ==
    [id \in {"SVC001", "SVC002", "SVC003", "SVC004", "SVC005"} |->
        CASE id = "SVC001" -> [id |-> id, name |-> "Luz del Sur", category |-> "Electricidad"]
          [] id = "SVC002" -> [id |-> id, name |-> "Sedapal", category |-> "Agua"]
          [] id = "SVC003" -> [id |-> id, name |-> "Claro Movil", category |-> "Telefonia"]
          [] id = "SVC004" -> [id |-> id, name |-> "Netflix", category |-> "Streaming"]
          [] OTHER         -> [id |-> id, name |-> "Movistar Hogar", category |-> "Internet"]]

CustomerFavorites ==
    [c \in {"cust-1", "cust-2", "cust-3"} |->
        CASE c = "cust-1" -> <<"SVC001", "SVC002", "SVC004">>
          [] c = "cust-2" -> <<"SVC003", "SVC005">>
          [] OTHER        -> <<"SVC001", "SVC003", "SVC004", "SVC005">>]

InitialAccounts ==
    [id \in {"acct-123", "acct-124"} |->
        [id |-> id,
         balance |-> IF id = "acct-123" THEN 2050 ELSE 25000,
         currency |-> Currency]]

\* The keys "customer:service" of _latest_bills, as pairs.
BillKeys ==
    { <<"cust-1", "SVC001">>, <<"cust-1", "SVC002">>, <<"cust-1", "SVC004">>,
      <<"cust-2", "SVC003">>, <<"cust-2", "SVC005">>,
      <<"cust-3", "SVC001">>, <<"cust-3", "SVC003">> }

BillAmount(key) ==
    CASE key = <<"cust-1", "SVC001">> -> 8550
      [] key = <<"cust-1", "SVC002">> -> 4230
      [] key = <<"cust-1", "SVC004">> -> 4490
      [] key = <<"cust-2", "SVC003">> -> 5990
      [] key = <<"cust-2", "SVC005">> -> 12000
      [] key = <<"cust-3", "SVC001">> -> 15075
      [] OTHER                        -> 3990

BillInfo(customer_id, service_id, service_name, amount, status, error_message) ==
    Obj("BillInfo",
        [bill_id |-> IF status = "" THEN "" ELSE "BILL",
         customer_id |-> customer_id, service_id |-> service_id,
         service_name |-> service_name, amount |-> amount, currency |-> Currency,
         due_date |-> IF status = "" THEN "" ELSE "due", period |-> IF status = "" THEN "" ELSE "period",
         status |-> status, error_message |-> error_message])

LatestBills ==
    [key \in BillKeys |->
        BillInfo(key[1], key[2], Services[key[2]].name, BillAmount(key),
                 IF key = <<"cust-3", "SVC001">> THEN "Vencido" ELSE "Pendiente", "")]

BalanceInfo(balance, currency, error_message) ==
    Obj("BalanceInfo",
        [balance |-> balance, currency |-> currency, error_message |-> error_message])

PaymentResult(receipt_id, receipt_details, error_message) ==
    Obj("PaymentResult",
        [receipt_id |-> receipt_id, receipt_details |-> receipt_details,
         error_message |-> error_message])

ReceiptInfo(receipt_id, account_id, service_id, service_name, amount, currency) ==
    Obj("ReceiptInfo",
        [receipt_id |-> receipt_id, account_id |-> account_id, service_id |-> service_id,
         service_name |-> service_name, amount |-> amount, currency |-> currency,
         timestamp |-> "utcnow"])

\* A call's outcome: the exception raised ("" when it returned), the returned
\* value and the plugin's data after the call.
Outcome(result, accs, recs) ==
    [raised |-> "", result |-> result, accounts |-> accs, receipts |-> recs]

Raise(exception, accs, recs) ==
    [raised |-> exception, result |-> PyList(<<>>), accounts |-> accs, receipts |-> recs]

(***************************************************************************)
(* The tools.                                                              *)
(***************************************************************************)
list_favorite_services(accs, recs, customer_id) ==
    IF customer_id \in DOMAIN CustomerFavorites
    THEN LET favorite_ids == CustomerFavorites[customer_id]
             known == SelectSeq(favorite_ids, LAMBDA svc_id : svc_id \in DOMAIN Services)
         IN  Outcome(PyList([j \in 1..Len(known) |-> Obj("ServiceInfo", Services[known[j]])]),
                     accs, recs)
    ELSE Outcome(PyList(<<>>), accs, recs)

get_balance_raises(accs, recs, account_id) ==
    IF account_id \in DOMAIN accs
    THEN Outcome(BalanceInfo(accs[account_id].balance, accs[account_id].currency, ""),
                 accs, recs)
    ELSE Raise("KeyError: account_id", accs, recs)

get_balance(accs, recs, account_id) ==
    IF account_id \in DOMAIN accs
    THEN Outcome(BalanceInfo(accs[account_id].balance, accs[account_id].currency, ""),
                 accs, recs)
    ELSE Outcome(BalanceInfo(0, Currency, "Account {account_id} not found."), accs, recs)

\* uuid4().hex[:12]: an id no recorded receipt has.
NewReceiptId(recs) == "RCP-" \o ToString(Cardinality(DOMAIN recs) + 1)

pay_service_raises(accs, recs, account_id, service_id, amount) ==
    IF account_id \notin DOMAIN accs
    THEN Outcome(PaymentResult("", "", "Account {account_id} not found."), accs, recs)
    ELSE IF accs[account_id].balance < amount
    THEN Raise("ValueError: Insufficient funds.", accs, recs)
    ELSE IF service_id \notin DOMAIN Services
    THEN Outcome(PaymentResult("", "", "Service {service_id} not found."), accs, recs)
    ELSE LET account    == accs[account_id]
             service    == Services[service_id]
             receipt_id == NewReceiptId(recs)
             receipt    == ReceiptInfo(receipt_id, account_id, service_id, service.name,
                                       amount, account.currency)
         IN  Outcome(PaymentResult(receipt_id, "Pago de {amount} realizado exitosamente.", ""),
                     [accs EXCEPT ![account_id].balance = @ - amount],
                     (receipt_id :> receipt) @@ recs)

pay_service_no_receipt(accs, recs, account_id, service_id, amount) ==
    IF account_id \notin DOMAIN accs
    THEN Outcome(PaymentResult("", "", "Account {account_id} not found."), accs, recs)
    ELSE IF accs[account_id].balance < amount
    THEN Outcome(PaymentResult("", "", "Insufficient funds."), accs, recs)
    ELSE IF service_id \notin DOMAIN Services
    THEN Outcome(PaymentResult("", "", "Service {service_id} not found."), accs, recs)
    ELSE LET account    == accs[account_id]
             service    == Services[service_id]
             receipt_id == NewReceiptId(recs)
             receipt    == ReceiptInfo(receipt_id, account_id, service_id, service.name,
                                       amount, account.currency)
         IN  Outcome(PaymentResult(receipt_id, "Pago de {amount} realizado exitosamente.", ""),
                     [accs EXCEPT ![account_id].balance = @ - amount],
                     recs)

pay_service_debit_first(accs, recs, account_id, service_id, amount) ==
    IF account_id \notin DOMAIN accs
    THEN Outcome(PaymentResult("", "", "Account {account_id} not found."), accs, recs)
    ELSE IF accs[account_id].balance < amount
    THEN Outcome(PaymentResult("", "", "Insufficient funds."), accs, recs)
    ELSE IF service_id \notin DOMAIN Services
    THEN Outcome(PaymentResult("", "", "Service {service_id} not found."),
                 [accs EXCEPT ![account_id].balance = @ - amount], recs)
    ELSE LET account    == accs[account_id]
             service    == Services[service_id]
             receipt_id == NewReceiptId(recs)
             receipt    == ReceiptInfo(receipt_id, account_id, service_id, service.name,
                                       amount, account.currency)
         IN  Outcome(PaymentResult(receipt_id, "Pago de {amount} realizado exitosamente.", ""),
                     [accs EXCEPT ![account_id].balance = @ - amount],
                     (receipt_id :> receipt) @@ recs)

pay_service_no_funds_check(accs, recs, account_id, service_id, amount) ==
    IF account_id \notin DOMAIN accs
    THEN Outcome(PaymentResult("", "", "Account {account_id} not found."), accs, recs)
    ELSE IF service_id \notin DOMAIN Services
    THEN Outcome(PaymentResult("", "", "Service {service_id} not found."), accs, recs)
    ELSE LET account    == accs[account_id]
             service    == Services[service_id]
             receipt_id == NewReceiptId(recs)
             receipt    == ReceiptInfo(receipt_id, account_id, service_id, service.name,
                                       amount, account.currency)
         IN  Outcome(PaymentResult(receipt_id, "Pago de {amount} realizado exitosamente.", ""),
                     [accs EXCEPT ![account_id].balance = @ - amount],
                     (receipt_id :> receipt) @@ recs)

pay_service_le(accs, recs, account_id, service_id, amount) ==
    IF account_id \notin DOMAIN accs
    THEN Outcome(PaymentResult("", "", "Account {account_id} not found."), accs, recs)
    ELSE IF accs[account_id].balance <= amount
    THEN Outcome(PaymentResult("", "", "Insufficient funds."), accs, recs)
    ELSE IF service_id \notin DOMAIN Services
    THEN Outcome(PaymentResult("", "", "Service {service_id} not found."), accs, recs)
    ELSE LET account    == accs[account_id]
             service    == Services[service_id]
             receipt_id == NewReceiptId(recs)
             receipt    == ReceiptInfo(receipt_id, account_id, service_id, service.name,
                                       amount, account.currency)
         IN  Outcome(PaymentResult(receipt_id, "Pago de {amount} realizado exitosamente.", ""),
                     [accs EXCEPT ![account_id].balance = @ - amount],
                     (receipt_id :> receipt) @@ recs)

pay_service(accs, recs, account_id, service_id, amount) ==
    IF account_id \notin DOMAIN accs
    THEN Outcome(PaymentResult("", "", "Account {account_id} not found."), accs, recs)
    ELSE IF accs[account_id].balance < amount
    THEN Outcome(PaymentResult("", "", "Insufficient funds."), accs, recs)
    ELSE IF service_id \notin DOMAIN Services
    THEN Outcome(PaymentResult("", "", "Service {service_id} not found."), accs, recs)
    ELSE LET account    == accs[account_id]
             service    == Services[service_id]
             receipt_id == NewReceiptId(recs)
             receipt    == ReceiptInfo(receipt_id, account_id, service_id, service.name,
                                       amount, account.currency)
         IN  Outcome(PaymentResult(receipt_id, "Pago de {amount} realizado exitosamente.", ""),
                     [accs EXCEPT ![account_id].balance = @ - amount],
                     (receipt_id :> receipt) @@ recs)

get_latest_bill(accs, recs, customer_id, service_id) ==
    IF <<customer_id, service_id>> \in DOMAIN LatestBills
    THEN Outcome(LatestBills[<<customer_id, service_id>>], accs, recs)
    ELSE IF service_id \notin DOMAIN Services
    THEN Outcome(BillInfo("", "", "", 0, "", "Servicio {service_id} no encontrado."), accs, recs)
    ELSE Outcome(BillInfo("", service_id, Services[service_id].name, 0, "",
                          "No se encontro factura pendiente para {service.name}."),
                 accs, recs)

(***************************************************************************)
(* Dispatch by tool name: handle_tool_call and the runner's function map.  *)
(***************************************************************************)
ValueError_UnknownTool == "ValueError: Unknown tool"
ValueError_NotInFunctionMap == "ValueError: Function not found in function map"
TypeError_Arguments == "TypeError: arguments do not bind to the parameters"
JSONDecodeError == "json.JSONDecodeError"

handle_tool_call(tool_name, arguments, accs, recs) ==
    CASE tool_name = "list_favorite_services" ->
            list_favorite_services(accs, recs, arguments["customer_id"])
      [] tool_name = "get_balance" ->
            get_balance(accs, recs, arguments["account_id"])
      [] tool_name = "pay_service" ->
            pay_service(accs, recs, arguments["account_id"], arguments["service_id"],
                        arguments["amount"])
      [] tool_name = "get_latest_bill" ->
            get_latest_bill(accs, recs, arguments["customer_id"], arguments["service_id"])
      [] OTHER -> Raise(ValueError_UnknownTool, accs, recs)

\* The function map of main.py: each name with the parameters of its lambda.
function_map ==
    [name \in {"list_favorite_services", "get_balance", "pay_service", "get_latest_bill"} |->
        CASE name = "list_favorite_services" -> {"customer_id"}
          [] name = "get_balance"            -> {"account_id"}
          [] name = "pay_service"            -> {"account_id", "service_id", "amount"}
          [] OTHER                           -> {"customer_id", "service_id"}]

(***************************************************************************)
(* json.loads, json.dumps and pydantic's model_dump.  JSON text of an      *)
(* object is its <<key, value>> pairs in order; loads keeps a repeated     *)
(* key's last value at the key's first position, as Python does.           *)
(***************************************************************************)
\* A text that breaks off after a key is not JSON: json.loads raises on it.
WellFormed(text) == \A j \in 1..Len(text) : Len(text[j]) = 2

json_loads(text) ==
    LET first == SelectSeq([j \in 1..Len(text) |-> j],
                           LAMBDA j : \A m \in 1..(j - 1) : text[m][1] # text[j][1])
        keys  == [n \in 1..Len(first) |-> text[first[n]][1]]
        lastOf(k) == CHOOSE j \in 1..Len(text) :
                        /\ text[j][1] = k
                        /\ \A m \in (j + 1)..Len(text) : text[m][1] # k
    IN  PyDict(keys, [k \in Range(keys) |-> text[lastOf(k)][2]])

FieldOrder(cls) ==
    CASE cls = "ServiceInfo"   -> <<"id", "name", "category">>
      [] cls = "BalanceInfo"   -> <<"balance", "currency", "error_message">>
      [] cls = "PaymentResult" -> <<"receipt_id", "receipt_details", "error_message">>
      [] cls = "ReceiptInfo"   -> <<"receipt_id", "account_id", "service_id", "service_name",
                                    "amount", "currency", "timestamp">>
      [] cls = "BillInfo"      -> <<"bill_id", "customer_id", "service_id", "service_name",
                                    "amount", "currency", "due_date", "period", "status",
                                    "error_message">>

model_dump_drops_last(obj) ==
    PyDict(SubSeq(FieldOrder(obj.cls), 1, Len(FieldOrder(obj.cls)) - 1), obj.fields)

model_dump(obj) == PyDict(FieldOrder(obj.cls), obj.fields)

\* The Field(default=...) of a declared field; BalanceInfo.balance has none.
FieldDefault(cls, field) ==
    CASE field = "currency" -> Some(Currency)
      [] field = "amount"   -> Some(0)
      [] field = "balance"  -> None
      [] OTHER              -> Some("")

\* cls(**d): pydantic builds the record from a map.  The classes forbid extra
\* fields, and a field the map leaves out takes its default.
model_validate(cls, d) ==
    IF \/ ~(Range(d.keys) \subseteq Range(FieldOrder(cls)))
       \/ \E f \in Range(FieldOrder(cls)) \ Range(d.keys) : IsNone(FieldDefault(cls, f))
    THEN Obj("ValidationError", [error_message |-> cls])
    ELSE Obj(cls, [f \in Range(FieldOrder(cls)) |->
                      IF f \in Range(d.keys) THEN d.val[f] ELSE Get(FieldDefault(cls, f))])

json_dumps_dict(d) ==
    [kind |-> "object", pairs |-> [j \in 1..Len(d.keys) |-> <<d.keys[j], d.val[d.keys[j]]>>]]

json_dumps(value) ==
    IF value.cls = "dict" THEN json_dumps_dict(value)
    ELSE [kind |-> "array",
          items |-> [j \in 1..Len(value.items) |-> json_dumps_dict(value.items[j])]]

(***************************************************************************)
(* WorkflowRunner.invoke_function.                                         *)
(***************************************************************************)
\* function_impl(**arguments): the lambda binds exactly its parameters.
function_impl_ignores_extra(function_name, kwargs, accs, recs) ==
    IF ~(function_map[function_name] \subseteq Range(kwargs.keys))
    THEN Raise(TypeError_Arguments, accs, recs)
    ELSE handle_tool_call(function_name, kwargs.val, accs, recs)

function_impl(function_name, kwargs, accs, recs) ==
    IF Range(kwargs.keys) # function_map[function_name]
    THEN Raise(TypeError_Arguments, accs, recs)
    ELSE handle_tool_call(function_name, kwargs.val, accs, recs)

invoke_function(function_name, arguments, accs, recs) ==
    IF function_name \notin DOMAIN function_map
    THEN Raise(ValueError_NotInFunctionMap, accs, recs)
    ELSE IF arguments.cls = "str" /\ ~WellFormed(arguments.text)
    THEN Raise(JSONDecodeError, accs, recs)
    ELSE LET args == IF arguments.cls = "str" THEN json_loads(arguments.text) ELSE arguments
             out  == function_impl(function_name, args, accs, recs)
         IN  IF out.raised # "" THEN out
             ELSE IF out.result.cls \notin {"list", "dict"}
             THEN [out EXCEPT !.result = model_dump(out.result)]
             ELSE IF out.result.cls = "list" /\ Len(out.result.items) > 0
             THEN [out EXCEPT !.result =
                      PyList([j \in 1..Len(out.result.items) |-> model_dump(out.result.items[j])])]
             ELSE out

(***************************************************************************)
(* The event stream of one turn and WorkflowRunner.monitor_workflow_async. *)
(***************************************************************************)
ITEM_ADDED == "response.output_item.added"
ITEM_DONE == "response.output_item.done"
TEXT_DELTA == "response.output_text.delta"
TEXT_DONE == "response.output_text.done"
ACTIVITY == "response.activity"
RESPONSE_COMPLETED == "response.completed"

NoItem == [type |-> "", role |-> "", id |-> "", call_id |-> "", name |-> "",
           arguments |-> PyStr(<<>>), status |-> ""]

FunctionCallItem(call_id, name, arguments, status) ==
    [NoItem EXCEPT !.type = "function_call", !.id = call_id, !.call_id = call_id,
                   !.name = name, !.arguments = arguments, !.status = status]

MessageItem(id) == [NoItem EXCEPT !.type = "message", !.role = "assistant", !.id = id]

WorkflowActionItem(status) == [NoItem EXCEPT !.type = "workflow_action", !.status = status]

Event(type, item, text) == [type |-> type, item |-> item, text |-> text]

Printed(kind, text) == [kind |-> kind, text |-> text]

MonitorStart_keeps_calls ==
    [has_streamed |-> FALSE, message_id |-> None, pending_function_calls |-> function_calls,
     printed |-> <<>>]

\* The locals of monitor_workflow_async before its loop.
MonitorStart ==
    [has_streamed |-> FALSE, message_id |-> None, pending_function_calls |-> <<>>,
     printed |-> <<>>]

IsCompletedCall_any_status(item) == item.type = "function_call"

\* "event.item.type == 'function_call' and event.item.status == 'completed'"
IsCompletedCall(item) == item.type = "function_call" /\ item.status = "completed"

\* One iteration of "async for event in stream".
MonitorStep(m, event) ==
    CASE event.type = ITEM_ADDED ->
            IF event.item.type = "workflow_action" THEN m
            ELSE IF event.item.role = "assistant"
            THEN IF Some(event.item.id) # m.message_id
                 THEN [m EXCEPT !.message_id = Some(event.item.id),
                                !.has_streamed = FALSE,
                                !.printed = (IF m.has_streamed
                                             THEN Append(@, Printed("newline", ""))
                                             ELSE @) \o <<Printed("header", event.item.id)>>]
                 ELSE m
            ELSE IF event.item.type = "function_call"
            THEN [m EXCEPT !.printed = Append(@, Printed("tool", event.item.name))]
            ELSE m
      [] event.type = ITEM_DONE ->
            IF event.item.type = "workflow_action" THEN m
            ELSE IF IsCompletedCall(event.item)
            THEN [m EXCEPT !.pending_function_calls =
                     Append(@, [call_id |-> event.item.call_id, name |-> event.item.name,
                                arguments |-> event.item.arguments])]
            ELSE m
      [] event.type = TEXT_DELTA ->
            [m EXCEPT !.printed = Append(@, Printed("text", event.text)),
                      !.has_streamed = TRUE]
      [] event.type = TEXT_DONE ->
            IF event.text # "" /\ ~m.has_streamed
            THEN [m EXCEPT !.printed = Append(@, Printed("text", event.text)),
                           !.has_streamed = TRUE]
            ELSE m
      [] event.type = ACTIVITY ->
            [m EXCEPT !.printed = Append(@, Printed("activity", event.text))]
      [] event.type = RESPONSE_COMPLETED ->
            IF m.has_streamed THEN [m EXCEPT !.printed = Append(@, Printed("newline", ""))]
            ELSE m
      [] OTHER -> m

RECURSIVE MonitorLoop(_, _, _)
MonitorLoop(m, stream, j) ==
    IF j > Len(stream) THEN m ELSE MonitorLoop(MonitorStep(m, stream[j]), stream, j + 1)

RequestInput_text(input, outputs) == PyStr(input)

\* request_params["input"]: the outputs batch when there is one, else the text.
RequestInput(input, outputs) ==
    IF ~IsNone(outputs) /\ Len(Get(outputs)) > 0 THEN PyList(Get(outputs)) ELSE PyStr(input)

\* The list monitor_workflow_async returns for a turn's stream.
monitor_workflow_async(stream) == MonitorLoop(MonitorStart, stream, 1).pending_function_calls

(***************************************************************************)
(* The remote side: what one turn's stream may hold.  Every function-call  *)
(* item gets a call id of its own, as the protocol gives it.               *)
(***************************************************************************)
Templates ==
    << [name |-> "get_balance",
        arguments |-> PyStr(<< <<"account_id", "acct-123">> >>)],
       [name |-> "get_balance",
        arguments |-> PyStr(<< <<"account_id", "acct-999">> >>)],
       [name |-> "pay_service",
        arguments |-> PyStr(<< <<"account_id", "acct-123">>, <<"service_id", "SVC001">>,
                               <<"amount", 1500>> >>)],
       [name |-> "pay_service",
        arguments |-> PyStr(<< <<"account_id", "acct-123">>, <<"service_id", "SVC999">>,
                               <<"amount", 1500>> >>)],
       [name |-> "transfer_funds",
        arguments |-> PyStr(<< <<"account_id", "acct-123">> >>)],
       [name |-> "get_balance",
        arguments |-> PyStr(<< >>)],
       [name |-> "list_favorite_services",
        arguments |-> PyStr(<< <<"customer_id", "cust-1">> >>)] >>

\* What the remote side may put in a stream: each template as a completed item,
\* and a payment that does not complete.
ItemChoices ==
    [k \in 1..(Len(Templates) + 1) |->
        IF k <= Len(Templates) THEN [template |-> Templates[k], status |-> "completed"]
        ELSE [template |-> Templates[3], status |-> "incomplete"]]

UserInputs == {"cuales son mis servicios favoritos", "pagar luz"}

CallId(run, turn, j) ==
    "call-" \o ToString(run) \o "-" \o ToString(turn) \o "-" \o ToString(j)

RemoteItems(run, turn, n, f) ==
    [j \in 1..n |-> FunctionCallItem(CallId(run, turn, j), ItemChoices[f[j]].template.name,
                                      ItemChoices[f[j]].template.arguments,
                                      ItemChoices[f[j]].status)]

\* Each item is added, then done with its final status; the turn then completes.
StreamOf(items) ==
    [j \in 1..(2 * Len(items) + 1) |->
        IF j = 2 * Len(items) + 1 THEN Event(RESPONSE_COMPLETED, NoItem, "")
        ELSE IF j % 2 = 1
        THEN Event(ITEM_ADDED, [items[(j + 1) \div 2] EXCEPT !.status = "in_progress"], "")
        ELSE Event(ITEM_DONE, items[j \div 2], "")]

CallIds(calls) == {calls[j].call_id : j \in 1..Len(calls)}

Payments(calls) == Cardinality({j \in 1..Len(calls) : calls[j].name = "pay_service"})

(***************************************************************************)
(* WorkflowRunner.execute_async.                                           *)
(***************************************************************************)
LoopDone_single(calls) == Len(calls) <= 1

\* "if function_calls: ... else: is_complete = True"
LoopDone(calls) == Len(calls) = 0

NewBatch_keep(old) == IF IsNone(old) THEN <<>> ELSE Get(old)

\* "tool_outputs = []"
NewBatch(old) == <<>>

NextCall_reversed(calls, j) == calls[Len(calls) + 1 - j]

\* "for func_call in function_calls"
NextCall(calls, j) == calls[j]

FunctionCallOutput(func_call, result) ==
    [type |-> "function_call_output", call_id |-> func_call.call_id,
     output |-> json_dumps(result)]

\* The record kept of a tool call: its name and arguments, the plugin's data
\* before it, the exception it raised and the value it returned.
CallRecord(name, arguments, accs, recs, out) ==
    [name |-> name, arguments |-> arguments, accounts |-> accs, receipts |-> recs,
     raised |-> out.raised, result |-> out.result]

NoCall == CallRecord("", <<>>, InitialAccounts, <<>>, Outcome(PyList(<<>>), InitialAccounts, <<>>))

PluginInit ==
    /\ accounts = InitialAccounts
    /\ receipts = <<>>
    /\ last = NoCall

RunnerInit ==
    /\ pc = "idle"
    /\ active = {}
    /\ user_input = ""
    /\ current_input = ""
    /\ tool_outputs = None
    /\ function_calls = <<>>
    /\ idx = 1
    /\ error = ""
    /\ runs = 0
    /\ turnNo = 0
    /\ submitted = 0
    /\ emptyTurns = 0
    /\ lastInput = PyStr("")
    /\ prevCalls = <<>>
    /\ olderIds = {}
    /\ invoked = <<>>
    /\ batchStart = [accounts |-> InitialAccounts, receipts |-> <<>>]

\* WorkflowState.__init__
NewWorkflowState ==
    [user_message |-> "", customer_id |-> "cust-1", account_id |-> "acct-123",
     service_selection |-> None, balance |-> None, confirmation |-> None, payment |-> None]

NoHandler == [executor |-> "", state |-> NewWorkflowState, sent |-> 0, yielded |-> 0]

WorkflowNotStarted ==
    /\ wfState = NewWorkflowState
    /\ wfStatus = "NotStarted"
    /\ wfCurrent = {}
    /\ wfOutputs = <<>>
    /\ wfRan = <<>>
    /\ wfLast = NoHandler
    /\ svcState = NewWorkflowState
    /\ wfRunNo = 0
    /\ wfEntry = ""

\* No stream is being read.
MonitorIdle ==
    /\ mon = MonitorStart
    /\ events = <<>>
    /\ monResult = None

\* The runs that may go on side by side, each a task of the one event loop.
Runs == {1, 2}

NoTask == [pc |-> "waiting", account_id |-> "", service_id |-> "", amount |-> 0,
           requested |-> InitialAccounts, calls |-> 0]

TasksIdle ==
    /\ tasks = [r \in Runs |-> NoTask]
    /\ paid = <<>>

\* No caller has asked for a cancellation.
CallerIdle ==
    cancelSignal = None

Init ==
    PluginInit /\ RunnerInit /\ WorkflowNotStarted /\ MonitorIdle /\ TasksIdle /\ CallerIdle

\* main.py calls runner.execute_async with a non-empty line of user input.
Execute ==
    /\ pc \in {"idle", "done"}
    /\ runs < MaxRuns
    /\ \E text \in UserInputs :
          /\ user_input' = text
          /\ current_input' = text
    /\ tool_outputs' = None
    /\ pc' = "turn"
    /\ runs' = runs + 1
    /\ turnNo' = 0
    /\ emptyTurns' = 0
    /\ lastInput' = PyStr("")
    /\ function_calls' = <<>>
    /\ prevCalls' = <<>>
    /\ olderIds' = {}
    /\ invoked' = <<>>
    /\ idx' = 1
    /\ UNCHANGED <<accounts, receipts, last, active, error, submitted, batchStart>>
    /\ UNCHANGED <<wfVars, monVars, taskVars, callerVars>>

\* "await self.monitor_workflow_async(...)": the request is made and the turn
\* is open until its stream has been read.
OpenTurn ==
    /\ pc = "turn"
    /\ submitted < MaxTurns
    /\ pc' = "monitoring"
    /\ active' = active \cup {"turn"}
    /\ UNCHANGED <<accounts, receipts, last, user_input, current_input, tool_outputs,
                   function_calls, idx, error, runs, turnNo, submitted, emptyTurns,
                   lastInput, prevCalls, olderIds, invoked, batchStart>>
    /\ UNCHANGED <<wfVars, monVars, taskVars, callerVars>>

\* One pass of the while loop up to the for loop: the turn's stream has been
\* monitored, and the loop ends when no call is pending.
Turn ==
    /\ pc = "monitoring"
    /\ active' = active \ {"turn"}
    /\ \E n \in 0..MaxBatch :
        \E f \in [1..n -> 1..Len(ItemChoices)] :
          LET calls == monitor_workflow_async(StreamOf(RemoteItems(runs, turnNo + 1, n, f)))
          IN  /\ Cardinality(DOMAIN receipts) + Payments(calls) <= MaxReceipts
              /\ lastInput' = RequestInput(current_input, tool_outputs)
              /\ prevCalls' = function_calls
              /\ olderIds' = olderIds \cup CallIds(prevCalls)
              /\ function_calls' = calls
              /\ emptyTurns' = emptyTurns + (IF Len(calls) = 0 THEN 1 ELSE 0)
              /\ IF LoopDone(calls)
                 THEN /\ pc' = "done"
                      /\ UNCHANGED tool_outputs
                 ELSE /\ pc' = "invoke"
                      /\ tool_outputs' = Some(NewBatch(tool_outputs))
    /\ idx' = 1
    /\ turnNo' = turnNo + 1
    /\ submitted' = submitted + 1
    /\ batchStart' = [accounts |-> accounts, receipts |-> receipts]
    /\ UNCHANGED <<accounts, receipts, last, user_input, current_input, error, runs, invoked>>
    /\ UNCHANGED <<wfVars, monVars, taskVars, callerVars>>

Started_gather(calls, j) == CallIds(calls)

\* "for func_call in function_calls: result = self.invoke_function(...)":
\* the calls whose invocation starts when the for loop is at position j.
Started(calls, j) == {NextCall(calls, j).call_id}

\* The for loop hands the next call to invoke_function.
BeginInvoke ==
    /\ pc = "invoke"
    /\ pc' = "invoking"
    /\ active' = active \cup Started(function_calls, idx)
    /\ UNCHANGED <<accounts, receipts, last, user_input, current_input, tool_outputs,
                   function_calls, idx, error, runs, turnNo, submitted, emptyTurns,
                   lastInput, prevCalls, olderIds, invoked, batchStart>>
    /\ UNCHANGED <<wfVars, monVars, taskVars, callerVars>>

\* One pass of the for loop: the call has been invoked and its output is
\* appended; after the last call current_input is emptied and the while loop
\* goes round.
InvokeNext ==
    /\ pc = "invoking"
    /\ LET func_call == NextCall(function_calls, idx)
           out == invoke_function(func_call.name, func_call.arguments, accounts, receipts)
       IN  /\ invoked' = Append(invoked, func_call.call_id)
           /\ active' = active \ {func_call.call_id}
           /\ last' = CallRecord(func_call.name, json_loads(func_call.arguments.text).val,
                                 accounts, receipts, out)
           /\ accounts' = out.accounts
           /\ receipts' = out.receipts
           /\ IF out.raised # ""
              THEN /\ pc' = "aborted"
                   /\ error' = out.raised
                   /\ UNCHANGED <<tool_outputs, idx, current_input>>
              ELSE /\ tool_outputs' =
                          Some(Append(Get(tool_outputs), FunctionCallOutput(func_call, out.result)))
                   /\ idx' = idx + 1
                   /\ IF idx = Len(function_calls)
                      THEN pc' = "turn" /\ current_input' = ""
                      ELSE pc' = "invoke" /\ UNCHANGED current_input
                   /\ UNCHANGED error
    /\ UNCHANGED <<user_input, function_calls, runs, turnNo, submitted, emptyTurns,
                   lastInput, prevCalls, olderIds, batchStart>>
    /\ UNCHANGED <<wfVars, monVars, taskVars, callerVars>>

Next == Execute \/ OpenTurn \/ Turn \/ BeginInvoke \/ InvokeNext

Spec == Init /\ [][Next]_vars

(***************************************************************************)
(* The dispatch loop with a caller that asks for a cancellation while a    *)
(* turn's stream is being read or a tool is executing.  execute_async      *)
(* takes no cancellation token and reads no flag, and main.py awaits it    *)
(* directly, so nothing in the loop looks at the request.                  *)
(***************************************************************************)
\* Requests made so far: the turns monitored and the one being monitored.
TurnsOpened == submitted + (IF pc = "monitoring" THEN 1 ELSE 0)

CallerCancels ==
    /\ IsNone(cancelSignal)
    /\ pc \in {"monitoring", "invoking"}
    /\ cancelSignal' = Some([run |-> runs, opened |-> TurnsOpened])
    /\ UNCHANGED <<pluginVars, last, runnerVars, wfVars, monVars, taskVars>>

CancelNext == Next \/ CallerCancels

CancelSpec == Init /\ [][CancelNext]_vars

(***************************************************************************)
(* The tools called one after another through handle_tool_call, with any   *)
(* arguments.                                                              *)
(***************************************************************************)
AccountIds == {"acct-123", "acct-124", "acct-999"}
ServiceIds == {"SVC001", "SVC999"}
CustomerIds == {"cust-1", "cust-9"}
PayAmounts == {-500, 0, 1500, 2050, 10000}

CallTool(tool_name, arguments) ==
    LET out == handle_tool_call(tool_name, arguments, accounts, receipts)
    IN  /\ Cardinality(DOMAIN out.receipts) <= MaxReceipts
        /\ last' = CallRecord(tool_name, arguments, accounts, receipts, out)
        /\ accounts' = out.accounts
        /\ receipts' = out.receipts

CallListFavoriteServices ==
    /\ \E c \in CustomerIds : CallTool("list_favorite_services", [customer_id |-> c])
    /\ UNCHANGED <<runnerVars, wfVars, monVars, taskVars, callerVars>>

CallGetBalance ==
    /\ \E a \in AccountIds : CallTool("get_balance", [account_id |-> a])
    /\ UNCHANGED <<runnerVars, wfVars, monVars, taskVars, callerVars>>

CallPayService ==
    /\ \E a \in AccountIds, v \in ServiceIds, amount \in PayAmounts :
          CallTool("pay_service", [account_id |-> a, service_id |-> v, amount |-> amount])
    /\ UNCHANGED <<runnerVars, wfVars, monVars, taskVars, callerVars>>

CallGetLatestBill ==
    /\ \E c \in CustomerIds, v \in ServiceIds :
          CallTool("get_latest_bill", [customer_id |-> c, service_id |-> v])
    /\ UNCHANGED <<runnerVars, wfVars, monVars, taskVars, callerVars>>

PluginNext ==
    CallListFavoriteServices \/ CallGetBalance \/ CallPayService \/ CallGetLatestBill

PluginSpec == Init /\ [][PluginNext]_vars

(***************************************************************************)
(* invoke_function called directly, with any name and any arguments text.  *)
(***************************************************************************)
InvokeNames ==
    {"list_favorite_services", "get_balance", "pay_service", "get_latest_bill",
     "transfer_funds"}

InvokeArguments ==
    { PyStr(<< >>),
      PyStr(<< <<"account_id">> >>),
      PyStr(<< <<"account_id", "acct-123">> >>),
      PyStr(<< <<"customer_id", "cust-1">> >>),
      PyStr(<< <<"customer_id", "cust-1">>, <<"service_id", "SVC001">> >>),
      PyStr(<< <<"account_id", "acct-123">>, <<"service_id", "SVC001">> >>),
      PyStr(<< <<"account_id", "acct-123">>, <<"service_id", "SVC001">>,
               <<"amount", 1500>> >>),
      PyStr(<< <<"account_id", "acct-124">>, <<"service_id", "SVC001">>,
               <<"amount", 10000>> >>),
      PyStr(<< <<"account_id", "acct-123">>, <<"service_id", "SVC001">>,
               <<"amount", 1500>>, <<"note", "urgente">> >>) }

InvokeFunction ==
    /\ \E function_name \in InvokeNames, arguments \in InvokeArguments :
          LET out == invoke_function(function_name, arguments, accounts, receipts)
          IN  /\ Cardinality(DOMAIN out.receipts) <= MaxReceipts
              /\ last' = CallRecord(function_name, arguments, accounts, receipts, out)
              /\ accounts' = out.accounts
              /\ receipts' = out.receipts
    /\ UNCHANGED <<runnerVars, wfVars, monVars, taskVars, callerVars>>

DirectNext == InvokeFunction

InvokeSpec == Init /\ [][DirectNext]_vars

(***************************************************************************)
(* The workflow graph of workflow_code.py.  A handler's result is the      *)
(* state it leaves, the number of ctx.send_message calls it made and the   *)
(* outputs it yielded.  The remote agents are opaque: agent.run returns a  *)
(* response that the handlers only print.                                  *)
(***************************************************************************)
Executors == {"select_service", "get_balance", "confirm_payment", "decision", "pay"}

\* WorkflowBuilder: set_start_executor and the four add_edge calls.
StartExecutor == "select_service"

Edges_skip ==
    { <<"select_service", "confirm_payment">>, <<"get_balance", "confirm_payment">>,
      <<"confirm_payment", "decision">>, <<"decision", "pay">> }

Edges ==
    { <<"select_service", "get_balance">>, <<"get_balance", "confirm_payment">>,
      <<"confirm_payment", "decision">>, <<"decision", "pay">> }

\* The executors in the order of the chain main builds.
ExecutorSequence == <<"select_service", "get_balance", "confirm_payment", "decision", "pay">>

Message(text, amounts, detail) == [text |-> text, amounts |-> amounts, detail |-> detail]

Handled(state, sent, outputs) == [state |-> state, sent |-> sent, outputs |-> outputs]

handle_start(state, message) ==
    Handled([state EXCEPT !.user_message = message], 1, <<>>)

handle_balance_check(state) == Handled(state, 1, <<>>)

handle_confirmation_unguarded(state) == Handled(state, 1, <<>>)

handle_confirmation(state) ==
    IF IsNone(state.service_selection) \/ IsNone(state.balance)
    THEN Handled(state, 0, <<Message("Error: Missing required data", <<>>, "")>>)
    ELSE Handled(state, 1, <<>>)

handle_decision_ge(state) ==
    IF IsNone(state.confirmation)
    THEN Handled(state, 0, <<Message("Error: No confirmation data", <<>>, "")>>)
    ELSE IF ~Get(state.confirmation).Confirmed
    THEN Handled(state, 0, <<Message("Entendido, no realizo el pago.", <<>>, "")>>)
    ELSE IF Get(state.confirmation).Amount <= 0
    THEN Handled(state, 0, <<Message("El monto debe ser mayor que 0.", <<>>, "")>>)
    ELSE IF ~IsNone(state.balance)
            /\ Get(state.confirmation).Amount >= Get(state.balance).Balance
    THEN Handled(state, 0,
                 <<Message("Fondos insuficientes",
                           <<Get(state.confirmation).Amount, Get(state.balance).Balance>>,
                           Get(state.balance).Currency)>>)
    ELSE Handled(state, 1, <<>>)

handle_decision_amount_first(state) ==
    IF IsNone(state.confirmation)
    THEN Handled(state, 0, <<Message("Error: No confirmation data", <<>>, "")>>)
    ELSE IF Get(state.confirmation).Amount <= 0
    THEN Handled(state, 0, <<Message("El monto debe ser mayor que 0.", <<>>, "")>>)
    ELSE IF ~Get(state.confirmation).Confirmed
    THEN Handled(state, 0, <<Message("Entendido, no realizo el pago.", <<>>, "")>>)
    ELSE IF ~IsNone(state.balance)
            /\ Get(state.confirmation).Amount > Get(state.balance).Balance
    THEN Handled(state, 0,
                 <<Message("Fondos insuficientes",
                           <<Get(state.confirmation).Amount, Get(state.balance).Balance>>,
                           Get(state.balance).Currency)>>)
    ELSE Handled(state, 1, <<>>)

handle_decision_no_funds_check(state) ==
    IF IsNone(state.confirmation)
    THEN Handled(state, 0, <<Message("Error: No confirmation data", <<>>, "")>>)
    ELSE IF ~Get(state.confirmation).Confirmed
    THEN Handled(state, 0, <<Message("Entendido, no realizo el pago.", <<>>, "")>>)
    ELSE IF Get(state.confirmation).Amount <= 0
    THEN Handled(state, 0, <<Message("El monto debe ser mayor que 0.", <<>>, "")>>)
    ELSE Handled(state, 1, <<>>)

\* "if state.balance and ...": a BalanceResult object is true, None is false.
handle_decision(state) ==
    IF IsNone(state.confirmation)
    THEN Handled(state, 0, <<Message("Error: No confirmation data", <<>>, "")>>)
    ELSE IF ~Get(state.confirmation).Confirmed
    THEN Handled(state, 0, <<Message("Entendido, no realizo el pago.", <<>>, "")>>)
    ELSE IF Get(state.confirmation).Amount <= 0
    THEN Handled(state, 0, <<Message("El monto debe ser mayor que 0.", <<>>, "")>>)
    ELSE IF ~IsNone(state.balance)
            /\ Get(state.confirmation).Amount > Get(state.balance).Balance
    THEN Handled(state, 0,
                 <<Message("Fondos insuficientes",
                           <<Get(state.confirmation).Amount, Get(state.balance).Balance>>,
                           Get(state.balance).Currency)>>)
    ELSE Handled(state, 1, <<>>)

handle_payment_silent_error(state) ==
    IF IsNone(state.confirmation) \/ IsNone(state.service_selection)
    THEN Handled(state, 0, <<>>)
    ELSE Handled(state, 0,
                 <<Message("Pago confirmado", <<>>,
                           IF IsNone(state.payment) THEN "N/A"
                           ELSE Get(state.payment).ReceiptId)>>)

handle_payment(state) ==
    IF IsNone(state.confirmation) \/ IsNone(state.service_selection)
    THEN Handled(state, 0, <<Message("Error: Missing payment data", <<>>, "")>>)
    ELSE Handled(state, 0,
                 <<Message("Pago confirmado", <<>>,
                           IF IsNone(state.payment) THEN "N/A"
                           ELSE Get(state.payment).ReceiptId)>>)

\* What the states handed to the executors may hold.
ServiceSelections ==
    {None, Some([IsComplete |-> TRUE, ServiceId |-> "SVC001", ServiceName |-> "Luz del Sur",
                 UserMessage |-> ""])}

BalanceValues == {0, 2000, 5000}

BalanceResults ==
    {None} \cup {Some([Balance |-> b, Currency |-> Currency, ErrorMessage |-> ""]) :
                    b \in BalanceValues}

ConfirmedAmounts == {-500, 0, 2000, 5000}

Confirmations ==
    {None} \cup {Some([IsComplete |-> TRUE, Confirmed |-> c, Amount |-> a,
                       ServiceId |-> "SVC001", UserMessage |-> ""]) :
                    c \in BOOLEAN, a \in ConfirmedAmounts}

PaymentResults ==
    {None, Some([ReceiptId |-> "RCP-1", ReceiptDetails |-> "Pago realizado", ErrorMessage |-> ""])}

WorkflowStates ==
    {[NewWorkflowState EXCEPT !.service_selection = s, !.balance = b, !.confirmation = c,
                              !.payment = p] :
        s \in ServiceSelections, b \in BalanceResults, c \in Confirmations,
        p \in PaymentResults}

WorkflowInit ==
    /\ PluginInit
    /\ RunnerInit
    /\ MonitorIdle
    /\ TasksIdle
    /\ CallerIdle
    /\ wfState \in WorkflowStates
    /\ wfStatus = "NotStarted"
    /\ wfCurrent = {}
    /\ wfOutputs = <<>>
    /\ wfRan = <<>>
    /\ wfLast = NoHandler
    /\ svcState = NewWorkflowState
    /\ wfRunNo = 0
    /\ wfEntry = ""

Deliver_ignores_output(id, handled) ==
    LET targets == {e[2] : e \in {d \in Edges : d[1] = id}}
        pending == (wfCurrent \ {id}) \cup (IF handled.sent > 0 THEN targets ELSE {})
    IN  /\ wfState' = handled.state
        /\ wfOutputs' = wfOutputs \o handled.outputs
        /\ wfRan' = Append(wfRan, id)
        /\ wfLast' = [executor |-> id, state |-> wfState, sent |-> handled.sent,
                      yielded |-> Len(handled.outputs)]
        /\ IF pending # {}
           THEN wfStatus' = "Running" /\ wfCurrent' = pending
           ELSE wfStatus' = "Idle" /\ wfCurrent' = {}

\* The effect of a handler on the run.  A message sent goes along every edge
\* that leaves the executor.  main stops reading the run at the first
\* WorkflowOutputEvent, which ends the run; a run with no message left is idle.
Deliver(id, handled) ==
    LET targets == {e[2] : e \in {d \in Edges : d[1] = id}}
        pending == (wfCurrent \ {id}) \cup (IF handled.sent > 0 THEN targets ELSE {})
    IN  /\ wfState' = handled.state
        /\ wfOutputs' = wfOutputs \o handled.outputs
        /\ wfRan' = Append(wfRan, id)
        /\ wfLast' = [executor |-> id, state |-> wfState, sent |-> handled.sent,
                      yielded |-> Len(handled.outputs)]
        /\ IF Len(handled.outputs) > 0
           THEN wfStatus' = "Completed" /\ wfCurrent' = {}
           ELSE IF pending # {}
           THEN wfStatus' = "Running" /\ wfCurrent' = pending
           ELSE wfStatus' = "Idle" /\ wfCurrent' = {}

\* The message main passes to workflow.run_stream.
RunMessage == "cuales son mis servicios favoritos"

\* workflow.run_stream(message): the start executor gets the message.  The
\* workflow object stays usable after a run, with the executors it was built
\* from.
RunStream ==
    /\ wfStatus \in {"NotStarted", "Completed", "Idle"}
    /\ wfRunNo < MaxWorkflowRuns
    /\ wfRunNo' = wfRunNo + 1
    /\ wfStatus' = "Running"
    /\ wfCurrent' = {StartExecutor}
    /\ wfEntry' = StartExecutor
    /\ wfOutputs' = <<>>
    /\ wfRan' = <<>>
    /\ wfLast' = NoHandler
    /\ UNCHANGED <<wfState, svcState>>
    /\ UNCHANGED <<pluginVars, last, runnerVars, monVars, taskVars, callerVars>>

\* A state handed straight to one of the other executors.
HandTo ==
    /\ wfStatus = "NotStarted"
    /\ wfRunNo' = wfRunNo + 1
    /\ wfStatus' = "Running"
    /\ \E id \in Executors \ {StartExecutor} :
          /\ wfCurrent' = {id}
          /\ wfEntry' = id
    /\ UNCHANGED <<wfState, wfOutputs, wfRan, wfLast, svcState>>
    /\ UNCHANGED <<pluginVars, last, runnerVars, monVars, taskVars, callerVars>>

\* handle_start works on self.state, the WorkflowState the executor was
\* constructed with, and sends that object on.  The later handlers write
\* nothing to the state they are handed, so the object the executor keeps
\* changes only here.
HandleStart ==
    /\ wfStatus = "Running" /\ "select_service" \in wfCurrent
    /\ Deliver("select_service", handle_start(svcState, RunMessage))
    /\ svcState' = handle_start(svcState, RunMessage).state
    /\ UNCHANGED <<wfRunNo, wfEntry>>
    /\ UNCHANGED <<pluginVars, last, runnerVars, monVars, taskVars, callerVars>>

HandleBalanceCheck ==
    /\ wfStatus = "Running" /\ "get_balance" \in wfCurrent
    /\ Deliver("get_balance", handle_balance_check(wfState))
    /\ UNCHANGED <<svcState, wfRunNo, wfEntry>>
    /\ UNCHANGED <<pluginVars, last, runnerVars, monVars, taskVars, callerVars>>

HandleConfirmation ==
    /\ wfStatus = "Running" /\ "confirm_payment" \in wfCurrent
    /\ Deliver("confirm_payment", handle_confirmation(wfState))
    /\ UNCHANGED <<svcState, wfRunNo, wfEntry>>
    /\ UNCHANGED <<pluginVars, last, runnerVars, monVars, taskVars, callerVars>>

HandleDecision ==
    /\ wfStatus = "Running" /\ "decision" \in wfCurrent
    /\ Deliver("decision", handle_decision(wfState))
    /\ UNCHANGED <<svcState, wfRunNo, wfEntry>>
    /\ UNCHANGED <<pluginVars, last, runnerVars, monVars, taskVars, callerVars>>

HandlePayment ==
    /\ wfStatus = "Running" /\ "pay" \in wfCurrent
    /\ Deliver("pay", handle_payment(wfState))
    /\ UNCHANGED <<svcState, wfRunNo, wfEntry>>
    /\ UNCHANGED <<pluginVars, last, runnerVars, monVars, taskVars, callerVars>>

WorkflowNext ==
    \/ RunStream \/ HandTo
    \/ HandleStart \/ HandleBalanceCheck \/ HandleConfirmation \/ HandleDecision
    \/ HandlePayment

WorkflowSpec == WorkflowInit /\ [][WorkflowNext]_vars

\* The workflow engine delivers every message that waits at an executor, and
\* main starts the run it built: a step that can be taken is taken.
WorkflowLiveSpec == WorkflowSpec /\ WF_vars(WorkflowNext)

(***************************************************************************)
(* The decision step and the payment tool on the same figures.  The state  *)
(* handed to decision holds the account's balance as get_balance reports   *)
(* it and a confirmation with any amount; when decision sends the state    *)
(* on, the payment agent calls pay_service with the arguments              *)
(* handle_payment gives it: the state's account, the selected service and  *)
(* the confirmed amount.                                                   *)
(***************************************************************************)
FundsAccounts == {"acct-123", "acct-124"}
FundsAmounts == {-500, 0, 500, 1500, 2050, 2051, 10000, 25000}

TakeSnapshot ==
    /\ wfStatus \in {"NotStarted", "Completed"}
    /\ wfRunNo < MaxWorkflowRuns
    /\ \E a \in FundsAccounts, amount \in FundsAmounts, confirmed \in BOOLEAN :
          wfState' =
             [NewWorkflowState EXCEPT
                 !.account_id = a,
                 !.service_selection =
                     Some([IsComplete |-> TRUE, ServiceId |-> "SVC001",
                           ServiceName |-> "Luz del Sur", UserMessage |-> ""]),
                 !.balance =
                     Some([Balance |-> get_balance(accounts, receipts, a).result.fields.balance,
                           Currency |-> Currency, ErrorMessage |-> ""]),
                 !.confirmation =
                     Some([IsComplete |-> TRUE, Confirmed |-> confirmed, Amount |-> amount,
                           ServiceId |-> "SVC001", UserMessage |-> ""])]
    /\ wfStatus' = "Running"
    /\ wfCurrent' = {"decision"}
    /\ wfEntry' = "decision"
    /\ wfRunNo' = wfRunNo + 1
    /\ wfOutputs' = <<>>
    /\ wfRan' = <<>>
    /\ wfLast' = NoHandler
    /\ UNCHANGED svcState
    /\ UNCHANGED <<pluginVars, last, runnerVars, monVars, taskVars, callerVars>>

\* handle_payment whose agent.run makes the pay_service call.
HandlePaymentWithTool ==
    /\ wfStatus = "Running" /\ "pay" \in wfCurrent
    /\ Deliver("pay", handle_payment(wfState))
    /\ LET arguments == [account_id |-> wfState.account_id,
                         service_id |-> Get(wfState.service_selection).ServiceId,
                         amount |-> Get(wfState.confirmation).Amount]
       IN  CallTool("pay_service", arguments)
    /\ UNCHANGED <<svcState, wfRunNo, wfEntry>>
    /\ UNCHANGED <<runnerVars, monVars, taskVars, callerVars>>

FundsNext == TakeSnapshot \/ HandleDecision \/ HandlePaymentWithTool

FundsSpec == Init /\ [][FundsNext]_vars

(***************************************************************************)
(* monitor_workflow_async reading one turn's stream event by event.  The   *)
(* remote side chooses the events: items are added before they are done,   *)
(* each function call is done at most once, and text events belong to the  *)
(* message added last.  The stream may go on after response.completed; the *)
(* function returns when the stream ends.                                  *)
(***************************************************************************)
MaxEvents == 5       \* events in one turn's stream

MessageIds == <<"msg-1", "msg-2">>
StreamCallIds == {"call-a", "call-b"}
DeltaTexts == {"Ho"}
DoneTexts == {"", "Hola", "Chau"}

StreamCall(call_id, status) ==
    FunctionCallItem(call_id, Templates[1].name, Templates[1].arguments, status)

\* What the stream read so far holds.
AddedIds(evs) == {evs[j].item.id : j \in {k \in 1..Len(evs) : evs[k].type = ITEM_ADDED}}
DoneIds(evs) == {evs[j].item.id : j \in {k \in 1..Len(evs) : evs[k].type = ITEM_DONE}}
MessagesAdded(evs) == Cardinality({k \in 1..Len(MessageIds) : MessageIds[k] \in AddedIds(evs)})

\* One iteration of the loop on the event the stream delivers.
Read(event) ==
    /\ IsNone(monResult)
    /\ Len(events) < MaxEvents
    /\ mon' = MonitorStep(mon, event)
    /\ events' = Append(events, event)
    /\ UNCHANGED monResult
    /\ UNCHANGED <<pluginVars, last, runnerVars, wfVars, taskVars, callerVars>>

StreamItemAdded ==
    /\ \E item \in {WorkflowActionItem("in_progress")}
                   \cup {MessageItem(MessageIds[k]) :
                            k \in {j \in 1..Len(MessageIds) : j = MessagesAdded(events) + 1}}
                   \cup {StreamCall(c, "in_progress") : c \in StreamCallIds \ AddedIds(events)} :
          Read(Event(ITEM_ADDED, item, ""))

StreamItemDone ==
    /\ \E item \in {WorkflowActionItem("completed")}
                   \cup {StreamCall(c, st) :
                            c \in (StreamCallIds \cap AddedIds(events)) \ DoneIds(events),
                            st \in {"completed", "incomplete"}} :
          Read(Event(ITEM_DONE, item, ""))

StreamTextDelta ==
    /\ MessagesAdded(events) > 0
    /\ \E text \in DeltaTexts :
          Read(Event(TEXT_DELTA, MessageItem(MessageIds[MessagesAdded(events)]), text))

StreamTextDone ==
    /\ MessagesAdded(events) > 0
    /\ \E text \in DoneTexts :
          Read(Event(TEXT_DONE, MessageItem(MessageIds[MessagesAdded(events)]), text))

StreamActivity ==
    /\ Read(Event(ACTIVITY, NoItem, "working"))

StreamCompleted ==
    /\ Read(Event(RESPONSE_COMPLETED, NoItem, ""))

\* "return pending_function_calls" when the stream has ended.
MonitorReturn ==
    /\ IsNone(monResult)
    /\ monResult' = Some(mon.pending_function_calls)
    /\ UNCHANGED <<mon, events>>
    /\ UNCHANGED <<pluginVars, last, runnerVars, wfVars, taskVars, callerVars>>

MonitorNext ==
    \/ StreamItemAdded \/ StreamItemDone \/ StreamTextDelta \/ StreamTextDone
    \/ StreamActivity \/ StreamCompleted \/ MonitorReturn

MonitorSpec == Init /\ [][MonitorNext]_vars

(***************************************************************************)
(* Runs side by side against the one PaymentPlugin of foundry_wrappers.py. *)
(* Each run is a coroutine of the event loop started by asyncio.run: it    *)
(* gives way only where it awaits, which is while it waits for its turn's  *)
(* stream.  invoke_function, the lambdas of the function map,              *)
(* handle_tool_call and pay_service are plain functions with no await, so  *)
(* a tool call runs from its first statement to its return in one step.    *)
(***************************************************************************)
MaxCalls == 2        \* pay_service calls of one run

TaskAccounts == {"acct-123", "acct-124"}
TaskAmounts == {1500, 2050}

PayView_requested(live, requested) == requested

\* "account = self._accounts[account_id]": the call works on the plugin's
\* data as it is when the call runs, not as it was when the call was asked for.
PayView(live, requested) == live

\* A turn of run r ends with a pay_service call to make.
TaskRequested ==
    /\ \E r \in Runs, a \in TaskAccounts, amount \in TaskAmounts :
          /\ tasks[r].pc = "waiting"
          /\ tasks[r].calls < MaxCalls
          /\ tasks' = [tasks EXCEPT ![r] = [@ EXCEPT !.pc = "called", !.account_id = a,
                                                      !.service_id = "SVC001",
                                                      !.amount = amount,
                                                      !.requested = accounts]]
    /\ UNCHANGED <<accounts, receipts, last, paid>>
    /\ UNCHANGED <<runnerVars, wfVars, monVars, callerVars>>

\* Run r invokes the call it was asked for.
TaskInvokes ==
    /\ \E r \in Runs :
          LET t   == tasks[r]
              out == pay_service(PayView(accounts, t.requested), receipts,
                                 t.account_id, t.service_id, t.amount)
          IN  /\ t.pc = "called"
              /\ accounts' = out.accounts
              /\ receipts' = out.receipts
              /\ last' = CallRecord("pay_service",
                                    [account_id |-> t.account_id, service_id |-> t.service_id,
                                     amount |-> t.amount],
                                    accounts, receipts, out)
              /\ paid' = IF out.result.fields.error_message = ""
                         THEN Append(paid, [run |-> r, account_id |-> t.account_id,
                                            amount |-> t.amount,
                                            before |-> accounts[t.account_id].balance,
                                            requested |-> t.requested[t.account_id].balance])
                         ELSE paid
              /\ tasks' = [tasks EXCEPT ![r] = [NoTask EXCEPT !.calls = t.calls + 1]]
    /\ UNCHANGED <<runnerVars, wfVars, monVars, callerVars>>

ConcurrentNext == TaskRequested \/ TaskInvokes

ConcurrentSpec == Init /\ [][ConcurrentNext]_vars

(***************************************************************************)
(* Properties of the dispatch loop.                                        *)
(***************************************************************************)
OutputIds(outputs) == {outputs[j].call_id : j \in 1..Len(outputs)}

\* The value of a key in the JSON text of an object.
JsonField(json, key) ==
    json.pairs[CHOOSE j \in 1..Len(json.pairs) : json.pairs[j][1] = key][2]

\* C1: execute_async returns exactly when a turn's monitor result was the empty
\* list: it has returned iff some turn of the run reported no pending call, that
\* turn is the first such turn and the last turn submitted.
C1_ReturnsIffEmptyTurn ==
    /\ (pc = "done") <=> (emptyTurns >= 1)
    /\ pc = "done" => (emptyTurns = 1 /\ Len(function_calls) = 0)
    /\ emptyTurns = 0 /\ pc \in {"turn", "monitoring"} /\ turnNo >= 1 => Len(function_calls) > 0

W_C1_ReturnedAfterLaterTurn == pc = "done" /\ turnNo >= 2 /\ Len(prevCalls) = 2

\* C2: a run whose every turn reported at least one completed call and in which
\* no tool raised has, by its MaxTurns-th turn, failed with LoopBudgetExceeded.
C2_LoopBudgetExceeded ==
    (turnNo = MaxTurns /\ emptyTurns = 0 /\ error = "") => pc = "budget_exceeded"

\* C3: the input of every turn after the first is a batch of function_call_output
\* items holding exactly one output per call id completed in the turn before it:
\* none missing, none twice, none of another turn.
C3_OneOutputPerCompletedCall ==
    turnNo >= 2 =>
        /\ lastInput.cls = "list"
        /\ \A j \in 1..Len(lastInput.items) : lastInput.items[j].type = "function_call_output"
        /\ OutputIds(lastInput.items) = CallIds(prevCalls)
        /\ Len(lastInput.items) = Cardinality(CallIds(prevCalls))
        /\ OutputIds(lastInput.items) \cap (olderIds \cup CallIds(function_calls)) = {}

W_C3_BatchAfterTwoTurns == turnNo = 3 /\ Len(prevCalls) = 2 /\ olderIds # {}

\* C4: when the run aborts on a tool name absent from the function map, the
\* accounts and receipts are those found when the batch was returned.
C4_UnknownToolChangesNothing ==
    (pc = "aborted" /\ error = ValueError_NotInFunctionMap) =>
        (accounts = batchStart.accounts /\ receipts = batchStart.receipts)

\* The call ids of the first n calls of a batch, in order.
IdsUpTo(calls, n) == [j \in 1..n |-> calls[j].call_id]

\* Calls of the current batch handed to invoke_function so far.
HandledNow ==
    CASE pc \in {"invoke", "invoking"} -> idx - 1
      [] pc = "aborted" -> idx
      [] OTHER          -> Len(function_calls)

\* C5: the calls of a batch are invoked in the order the monitor returned them,
\* the outputs batch lists their outputs in that order, and a turn is submitted
\* only when every call of the batch before it has been invoked.
C5_SequentialInOrder ==
    /\ Len(invoked) = Cardinality(olderIds) + Len(prevCalls) + HandledNow
    /\ SubSeq(invoked, Len(invoked) - HandledNow + 1, Len(invoked))
          = IdsUpTo(function_calls, HandledNow)
    /\ SubSeq(invoked, Cardinality(olderIds) + 1, Cardinality(olderIds) + Len(prevCalls))
          = IdsUpTo(prevCalls, Len(prevCalls))
    /\ pc \in {"invoke", "invoking"} =>
                        /\ Len(Get(tool_outputs)) = idx - 1
                        /\ \A j \in 1..(idx - 1) :
                              Get(tool_outputs)[j].call_id = function_calls[j].call_id
    /\ turnNo >= 2 => /\ Len(lastInput.items) = Len(prevCalls)
                      /\ \A j \in 1..Len(prevCalls) :
                            lastInput.items[j].call_id = prevCalls[j].call_id

W_C5_SecondCallOfBatch == pc = "invoke" /\ idx = 2 /\ turnNo = 2 /\ Len(prevCalls) = 2

\* C6: the first turn of a run carries the user input; every later turn carries
\* an outputs batch and no text, and by then current_input has been emptied.
C6_UserInputOnlyInFirstTurn ==
    /\ turnNo = 1 => (lastInput.cls = "str" /\ lastInput.text = user_input)
    /\ turnNo >= 2 => /\ lastInput.cls = "list"
                      /\ Len(lastInput.items) >= 1
                      /\ current_input = ""

W_C6_LaterTurn == turnNo = 2 /\ user_input = "pagar luz"

\* A call that fails in the domain: unknown account, insufficient funds,
\* unknown service.
DomainFailure(call) ==
    /\ call.name \in DOMAIN function_map
    /\ DOMAIN call.arguments = function_map[call.name]
    /\ \/ /\ call.name = "get_balance"
          /\ call.arguments["account_id"] \notin DOMAIN call.accounts
       \/ /\ call.name = "pay_service"
          /\ \/ call.arguments["account_id"] \notin DOMAIN call.accounts
             \/ call.arguments["service_id"] \notin DOMAIN Services
             \/ call.accounts[call.arguments["account_id"]].balance < call.arguments["amount"]

\* C7: a call that fails in the domain does not raise: its result has a
\* non-empty error_message, that result is the output appended for its call id,
\* and the loop is at the next call or the next turn.
C7_DomainFailureNotFatal ==
    (/\ pc \in {"invoke", "invoking", "turn", "monitoring", "aborted"}
     /\ HandledNow > 0
     /\ DomainFailure(last)) =>
        /\ last.raised = ""
        /\ pc # "aborted"
        /\ last.result.val["error_message"] # ""
        /\ LET output == Get(tool_outputs)[Len(Get(tool_outputs))]
           IN  /\ output.call_id = invoked[Len(invoked)]
               /\ JsonField(output.output, "error_message") = last.result.val["error_message"]

W_C7_InsufficientFundsSubmitted ==
    /\ pc = "turn"
    /\ HandledNow > 0
    /\ DomainFailure(last)
    /\ last.name = "pay_service"
    /\ last.arguments["service_id"] \in DOMAIN Services
    /\ last.result.val["error_message"] = "Insufficient funds."

(***************************************************************************)
(* Properties of pay_service and get_balance.                              *)
(***************************************************************************)
PaidAccount == last.arguments["account_id"]
PaidAmount == last.arguments["amount"]

\* C8: pay_service on a known account with balance b, a known service and an
\* amount a with 0 < a <= b returns an empty error message and a non-empty
\* receipt id, leaves the balance at b - a, records exactly one receipt, with
\* that id and amount a, and get_balance then returns b - a.
C8_PaymentSucceeds ==
    (/\ last.name = "pay_service"
     /\ PaidAccount \in DOMAIN last.accounts
     /\ last.arguments["service_id"] \in DOMAIN Services
     /\ 0 < PaidAmount
     /\ PaidAmount <= last.accounts[PaidAccount].balance) =>
        LET b   == last.accounts[PaidAccount].balance
            rid == last.result.fields.receipt_id
        IN  /\ last.raised = ""
            /\ last.result.fields.error_message = ""
            /\ rid # ""
            /\ accounts[PaidAccount].balance = b - PaidAmount
            /\ rid \notin DOMAIN last.receipts
            /\ DOMAIN receipts = DOMAIN last.receipts \cup {rid}
            /\ \A r \in DOMAIN last.receipts : receipts[r] = last.receipts[r]
            /\ receipts[rid].fields.receipt_id = rid
            /\ receipts[rid].fields.amount = PaidAmount
            /\ get_balance(accounts, receipts, PaidAccount).result.fields.balance
                  = b - PaidAmount

\* acct-123 at 20.50 paying 15.00 gives 5.50.
W_C8_Pays1500From2050 ==
    /\ last.name = "pay_service"
    /\ PaidAccount = "acct-123"
    /\ PaidAmount = 1500
    /\ last.accounts["acct-123"].balance = 2050
    /\ accounts["acct-123"].balance = 550
    /\ Cardinality(DOMAIN receipts) = Cardinality(DOMAIN last.receipts) + 1

\* C9: pay_service on an unknown account, with an amount above the balance or
\* for an unknown service returns a non-empty error message and an empty
\* receipt id and leaves every balance and the receipts as they were.
C9_FailedPaymentChangesNothing ==
    (/\ last.name = "pay_service"
     /\ \/ PaidAccount \notin DOMAIN last.accounts
        \/ last.arguments["service_id"] \notin DOMAIN Services
        \/ last.accounts[PaidAccount].balance < PaidAmount) =>
        /\ last.raised = ""
        /\ last.result.fields.error_message # ""
        /\ last.result.fields.receipt_id = ""
        /\ accounts = last.accounts
        /\ receipts = last.receipts

\* 100.00 against acct-123 at 20.50 leaves 20.50.
W_C9_Pays10000From2050 ==
    /\ last.name = "pay_service"
    /\ PaidAccount = "acct-123"
    /\ PaidAmount = 10000
    /\ last.accounts["acct-123"].balance = 2050
    /\ last.result.fields.error_message = "Insufficient funds."
    /\ accounts["acct-123"].balance = 2050

(***************************************************************************)
(* Properties of the workflow executors.                                   *)
(***************************************************************************)
\* C10: handed a state with confirmation and balance populated, DecisionExecutor
\* forwards to the payment executor iff Confirmed is true, Amount > 0 and
\* Amount <= Balance; otherwise it yields one message, which completes the run,
\* and forwards nothing.
C10_DecisionForwardsIffPayable ==
    (/\ wfLast.executor = "decision"
     /\ ~IsNone(wfLast.state.confirmation)
     /\ ~IsNone(wfLast.state.balance)) =>
        LET c == Get(wfLast.state.confirmation)
            b == Get(wfLast.state.balance)
            payable == c.Confirmed /\ c.Amount > 0 /\ c.Amount <= b.Balance
        IN  /\ payable => /\ wfLast.sent = 1
                          /\ wfLast.yielded = 0
                          /\ wfStatus = "Running"
                          /\ wfCurrent = {"pay"}
            /\ ~payable => /\ wfLast.sent = 0
                           /\ wfLast.yielded = 1
                           /\ wfStatus = "Completed"
                           /\ wfCurrent = {}

\* Amount equal to Balance forwards.
W_C10_AmountEqualsBalanceForwards ==
    /\ wfLast.executor = "decision"
    /\ ~IsNone(wfLast.state.confirmation)
    /\ ~IsNone(wfLast.state.balance)
    /\ Get(wfLast.state.confirmation).Confirmed
    /\ Get(wfLast.state.confirmation).Amount = 2000
    /\ Get(wfLast.state.balance).Balance = 2000
    /\ wfCurrent = {"pay"}

(***************************************************************************)
(* Properties of the executors and of a run of the workflow.               *)
(***************************************************************************)
\* C11: DecisionExecutor checks in a fixed order.  Confirmed false yields the
\* cancellation message whatever Amount and Balance are; else Amount <= 0
\* yields the amount-must-be-positive message whatever Balance is; else
\* Amount > Balance yields the insufficient-funds message with both amounts and
\* the currency.  In each case exactly one message is yielded and nothing is
\* forwarded, and no invocation yields more than one message.
C11_DecisionChecksInOrder ==
    (wfLast.executor = "decision" /\ ~IsNone(wfLast.state.confirmation)) =>
        LET c == Get(wfLast.state.confirmation)
            bal == wfLast.state.balance
            out == wfOutputs[Len(wfOutputs)]
            one == wfLast.yielded = 1 /\ wfLast.sent = 0 /\ Len(wfOutputs) = 1
        IN  /\ wfLast.yielded <= 1
            /\ ~c.Confirmed => one /\ out.text = "Entendido, no realizo el pago."
            /\ (c.Confirmed /\ c.Amount <= 0) =>
                   one /\ out.text = "El monto debe ser mayor que 0."
            /\ (c.Confirmed /\ c.Amount > 0 /\ ~IsNone(bal) /\ c.Amount > Get(bal).Balance) =>
                   /\ one
                   /\ out.text = "Fondos insuficientes"
                   /\ out.amounts = <<c.Amount, Get(bal).Balance>>
                   /\ out.detail = Get(bal).Currency

\* A declined confirmation whose amount is not positive: cancellation wins.
W_C11_DeclinedWithBadAmount ==
    /\ wfLast.executor = "decision"
    /\ ~IsNone(wfLast.state.confirmation)
    /\ ~Get(wfLast.state.confirmation).Confirmed
    /\ Get(wfLast.state.confirmation).Amount = 0
    /\ Len(wfOutputs) = 1
    /\ wfOutputs[1].text = "Entendido, no realizo el pago."

\* C12: once an executor has yielded an output the run is Completed: the
\* executor that yielded is the last one that ran in the run, no executor
\* holds a message, and the run has exactly one output.
C12_OutputCompletesRun ==
    Len(wfOutputs) > 0 =>
        /\ wfStatus = "Completed"
        /\ wfCurrent = {}
        /\ Len(wfOutputs) = 1
        /\ wfLast.yielded = 1
        /\ wfLast.executor = wfRan[Len(wfRan)]

\* A run of the built workflow that ended at the third executor.
W_C12_CompletedAtConfirmation ==
    /\ wfStatus = "Completed"
    /\ wfRan = <<"select_service", "get_balance", "confirm_payment">>
    /\ Len(wfOutputs) = 1

\* The fields of the state an invocation of an executor needs: those the
\* handler reads attributes of on the way it takes.
Needed(id, state) ==
    CASE id = "confirm_payment" -> {"service_selection", "balance"}
      [] id = "decision" ->
            {"confirmation"} \cup
            (IF ~IsNone(state.confirmation) /\ Get(state.confirmation).Confirmed
                /\ Get(state.confirmation).Amount > 0
             THEN {"balance"} ELSE {})
      [] id = "pay" -> {"confirmation", "service_selection"}
      [] OTHER -> {}

\* C13: an invocation of ConfirmationExecutor, DecisionExecutor or
\* PaymentExecutor that needs a field of the state that is not populated yields
\* a terminal error output and does not forward.
C13_MissingFieldYieldsError ==
    (/\ wfLast.executor \in {"confirm_payment", "decision", "pay"}
     /\ \E f \in Needed(wfLast.executor, wfLast.state) : IsNone(wfLast.state[f])) =>
        /\ wfLast.yielded = 1
        /\ wfLast.sent = 0
        /\ wfStatus = "Completed"

\* C14: DecisionExecutor handed a populated confirmation and an unpopulated
\* balance yields a terminal output and does not forward to the payment
\* executor.
C14_DecisionWithoutBalanceYields ==
    (/\ wfLast.executor = "decision"
     /\ ~IsNone(wfLast.state.confirmation)
     /\ IsNone(wfLast.state.balance)) =>
        /\ wfLast.yielded = 1
        /\ wfLast.sent = 0
        /\ "pay" \notin wfCurrent

\* C20: no executor keeps a WorkflowState between runs: when a later run of
\* the workflow starts, the state its start executor works on holds nothing
\* that an earlier run wrote.
C20_NoStateKeptBetweenRuns ==
    (wfRunNo >= 2 /\ wfStatus = "Running" /\ wfRan = <<>>) => svcState = NewWorkflowState

CompletedInStream(evs) ==
    LET done == SelectSeq(evs, LAMBDA e : /\ e.type = ITEM_DONE
                                          /\ e.item.type = "function_call"
                                          /\ e.item.status = "completed")
    IN  [j \in 1..Len(done) |-> [call_id |-> done[j].item.call_id, name |-> done[j].item.name,
                                  arguments |-> done[j].item.arguments]]

\* C15: the list monitor_workflow_async returns holds exactly the function-call
\* items whose item-done event arrived with status completed, in arrival
\* order; an item only added, or done with another status, is not in it.
C15_ReturnsCompletedCalls ==
    ~IsNone(monResult) => Get(monResult) = CompletedInStream(events)

\* Two calls were added; one completed, the other ended incomplete.
W_C15_OneOfTwoCompleted ==
    /\ ~IsNone(monResult)
    /\ Len(Get(monResult)) = 1
    /\ StreamCallIds \subseteq DoneIds(events)

\* Position of the first response.completed event of a stream, 0 when none.
FirstCompleted(evs) ==
    IF \E k \in 1..Len(evs) : evs[k].type = RESPONSE_COMPLETED
    THEN CHOOSE k \in 1..Len(evs) :
            /\ evs[k].type = RESPONSE_COMPLETED
            /\ \A j \in 1..(k - 1) : evs[j].type # RESPONSE_COMPLETED
    ELSE 0

\* C16: the monitor stops at response.completed: the pending calls and the
\* displayed text are those it had when that event was read, whatever events
\* the stream delivers afterwards.
C16_StopsAtCompleted ==
    FirstCompleted(events) > 0 =>
        LET atStop == MonitorLoop(MonitorStart, SubSeq(events, 1, FirstCompleted(events)), 1)
        IN  /\ mon.pending_function_calls = atStop.pending_function_calls
            /\ mon.printed = atStop.printed

\* C17: a text-done event of a message with no earlier text-delta of that
\* message displays its full text; a text-done event of a message whose text
\* was streamed by deltas displays nothing.
C17_TextShownOnce ==
    LET n == Len(events)
    IN  (n > 0 /\ events[n].type = TEXT_DONE /\ events[n].text # "") =>
            LET before == MonitorLoop(MonitorStart, SubSeq(events, 1, n - 1), 1).printed
                streamed == \E j \in 1..(n - 1) : /\ events[j].type = TEXT_DELTA
                                                  /\ events[j].item.id = events[n].item.id
            IN  IF streamed THEN mon.printed = before
                ELSE mon.printed = Append(before, Printed("text", events[n].text))

(***************************************************************************)
(* Properties of runs side by side.                                        *)
(***************************************************************************)
RECURSIVE PaidSum(_, _)
\* The sum of the amounts of the successful payments from an account.
PaidSum(seq, account_id) ==
    IF seq = <<>> THEN 0
    ELSE (IF seq[1].account_id = account_id THEN seq[1].amount ELSE 0)
         + PaidSum(Tail(seq), account_id)

\* C19: however the pay_service calls of the runs interleave, no update is
\* lost: every balance is the initial balance less the amounts of the
\* payments that succeeded from it, every success found a balance at least as
\* large as its amount, and every success has its receipt.
C19_NoLostUpdate ==
    /\ \A a \in DOMAIN accounts :
          accounts[a].balance = InitialAccounts[a].balance - PaidSum(paid, a)
    /\ \A j \in 1..Len(paid) : paid[j].before >= paid[j].amount
    /\ Cardinality(DOMAIN receipts) = Len(paid)

\* Two runs paid from the same account, the second asked for its call before
\* the first had made its own.
W_C19_PaidAcrossRuns ==
    /\ Len(paid) = 2
    /\ paid[1].run # paid[2].run
    /\ paid[1].account_id = paid[2].account_id
    /\ paid[2].requested # paid[2].before

(***************************************************************************)
(* Cancellation (CancelSpec).                                              *)
(***************************************************************************)
\* C21, as the claim states it: once the caller has asked to cancel a run,
\* whether its stream was being read or a tool was executing, the run opens
\* no further turn (so no outputs batch is submitted after the request) and
\* does not end as a normal return.
C21_CancelEndsRun ==
    (~IsNone(cancelSignal) /\ runs = Get(cancelSignal).run)
        => /\ TurnsOpened = Get(cancelSignal).opened
           /\ pc # "done"

(***************************************************************************)
(* The shape of a run of the built workflow (WorkflowSpec).                *)
(***************************************************************************)
IsPrefix(s, t) == Len(s) <= Len(t) /\ \A j \in 1..Len(s) : s[j] = t[j]

\* C22: in a run started by run_stream the executors that have run are a
\* prefix of select_service, get_balance, confirm_payment, decision, pay (so
\* select_service is first and none runs twice), and a message waits only at
\* the start executor before anything ran, afterwards only at the end of an
\* edge that leaves the executor that ran last.  The edge set is the constant
\* Edges: no action of the run writes it.
C22_RunIsPrefixOfChain ==
    wfEntry = StartExecutor =>
        /\ IsPrefix(wfRan, ExecutorSequence)
        /\ \A id \in wfCurrent :
              IF wfRan = <<>> THEN id = StartExecutor
              ELSE <<wfRan[Len(wfRan)], id>> \in Edges

W_C22_ThreeExecutorsRan ==
    /\ wfEntry = StartExecutor
    /\ wfRan = <<"select_service", "get_balance", "confirm_payment">>
    /\ wfStatus = "Completed"

\* C23, as the claim states it: select_service, get_balance and
\* confirm_payment always end by forwarding the state and pay always ends by
\* yielding an output.
C23_OnlyDecisionEndsEitherWay ==
    /\ wfLast.executor \in {"select_service", "get_balance", "confirm_payment"} =>
          wfLast.sent = 1 /\ wfLast.yielded = 0
    /\ wfLast.executor = "pay" => wfLast.sent = 0 /\ wfLast.yielded = 1

\* C23, amended: select_service and get_balance always end by forwarding the
\* state; confirm_payment forwards when the service selection and the balance
\* are populated and otherwise yields the missing-data error; pay always ends
\* by yielding an output.  Among invocations whose needed fields are all
\* populated only those of decision end either way.
C23_BranchesOnlyAtDecisionOrOnMissingData ==
    /\ wfLast.executor \in {"select_service", "get_balance"} =>
          wfLast.sent = 1 /\ wfLast.yielded = 0
    /\ wfLast.executor = "confirm_payment" =>
          IF \A f \in Needed("confirm_payment", wfLast.state) : ~IsNone(wfLast.state[f])
          THEN wfLast.sent = 1 /\ wfLast.yielded = 0
          ELSE /\ wfLast.sent = 0 /\ wfLast.yielded = 1
               /\ wfOutputs[Len(wfOutputs)].text = "Error: Missing required data"
    /\ wfLast.executor = "pay" => wfLast.sent = 0 /\ wfLast.yielded = 1

W_C23_ConfirmationForwards ==
    /\ wfLast.executor = "confirm_payment"
    /\ ~IsNone(wfLast.state.service_selection) /\ ~IsNone(wfLast.state.balance)
    /\ wfLast.sent = 1
    /\ wfCurrent = {"decision"}

(***************************************************************************)
(* invoke_function on its own (InvokeSpec).                                *)
(***************************************************************************)
\* The keyword names of the last call's arguments text.
LastKeys == Range(json_loads(last.arguments.text).keys)

\* C24: a call of a registered name whose arguments lack a parameter of the
\* registered function or carry one it does not declare raises the argument
\* error and leaves accounts and receipts as they were; a call of an
\* unregistered name raises the unknown-tool error, whatever its arguments
\* text is (even one that json.loads would reject), and changes nothing.
C24_BadCallFailsBeforeTool ==
    /\ (/\ last.name \in DOMAIN function_map
        /\ WellFormed(last.arguments.text)
        /\ LastKeys # function_map[last.name]) =>
            /\ last.raised = TypeError_Arguments
            /\ accounts = last.accounts
            /\ receipts = last.receipts
    /\ (last.name # "" /\ last.name \notin DOMAIN function_map) =>
            /\ last.raised = ValueError_NotInFunctionMap
            /\ accounts = last.accounts
            /\ receipts = last.receipts

W_C24_ExtraParameterAfterPayment ==
    /\ last.name = "pay_service"
    /\ WellFormed(last.arguments.text)
    /\ LastKeys = {"account_id", "service_id", "amount", "note"}
    /\ last.raised = TypeError_Arguments
    /\ Cardinality(DOMAIN receipts) = 1

\* What the registered function returned in the last call, before
\* invoke_function converted it.
LastReturned ==
    function_impl(last.name, json_loads(last.arguments.text), last.accounts,
                  last.receipts).result

C26_EachCallInvokedOnce ==
    /\ \A j, k \in 1..Len(invoked) : j # k => invoked[j] # invoked[k]
    /\ Range(invoked) \subseteq olderIds \cup CallIds(prevCalls) \cup CallIds(function_calls)
    /\ olderIds \cup CallIds(prevCalls) \subseteq Range(invoked)
    /\ pc \in {"turn", "monitoring", "done"} => CallIds(function_calls) \subseteq Range(invoked)
    /\ Cardinality(DOMAIN receipts) - Cardinality(DOMAIN batchStart.receipts)
          <= Payments(SubSeq(function_calls, 1, HandledNow))

W_C26_ThirdTurnAfterPayment ==
    /\ pc = "monitoring" /\ turnNo = 2
    /\ Len(invoked) = 4
    /\ Payments(prevCalls) = 1 /\ Payments(function_calls) = 1
    /\ Cardinality(DOMAIN receipts) = 1

\* C27: when the pay executor has run in a run that reached it along the
\* graph's edge from decision, the state it was handed has a populated
\* confirmation with Confirmed true and Amount > 0, and Amount <= Balance when
\* the balance is populated.
C27_PayOnlyForPayablePayment ==
    (wfLast.executor = "pay" /\ wfEntry # "pay") =>
        /\ ~IsNone(wfLast.state.confirmation)
        /\ Get(wfLast.state.confirmation).Confirmed
        /\ Get(wfLast.state.confirmation).Amount > 0
        /\ ~IsNone(wfLast.state.balance) =>
              Get(wfLast.state.confirmation).Amount <= Get(wfLast.state.balance).Balance

W_C27_PaidWithAmountEqualToBalance ==
    /\ wfLast.executor = "pay"
    /\ wfRan = <<"confirm_payment", "decision", "pay">>
    /\ Get(wfLast.state.confirmation).Amount = 2000
    /\ Get(wfLast.state.balance).Balance = 2000
    /\ wfStatus = "Completed"

\* A run started by run_stream in which the pay executor ran and the run ended
\* with the receipt message.
BuiltRunPaid ==
    /\ wfEntry = StartExecutor
    /\ wfLast.executor = "pay"
    /\ wfStatus = "Completed"
    /\ wfOutputs[Len(wfOutputs)].text = "Pago confirmado"

\* C28, as the claim states it: a run of the built workflow gets to the pay
\* executor and ends with the receipt output.  What the remote agents answer
\* is printed and not kept, so the runs started by run_stream do not differ
\* with it: either they get there or none does.
C28_PaymentStepReached == <>BuiltRunPaid

\* No state of a run of the built workflow has the pay executor in it.
BuiltRunNeverPays ==
    wfEntry = StartExecutor => (\A j \in 1..Len(wfRan) : wfRan[j] \notin {"decision", "pay"})

\* C29: every invocation of a handler made exactly one of the two calls, one
\* send_message or one yield_output, so a run that is not completed has a
\* message waiting at an executor and no run is left idle.
C29_HandlerSendsOrYieldsOnce ==
    /\ wfLast.executor # "" =>
          /\ wfLast.sent + wfLast.yielded = 1
          /\ wfLast.sent \in {0, 1}
    /\ wfStatus # "Idle"
    /\ wfStatus = "Running" => wfCurrent # {}

W_C29_PaymentYieldedError ==
    /\ wfLast.executor = "pay"
    /\ IsNone(wfLast.state.service_selection)
    /\ wfLast.yielded = 1 /\ wfLast.sent = 0
    /\ wfStatus = "Completed"

(***************************************************************************)
(* pay_service with any arguments (PluginSpec).                            *)
(***************************************************************************)
\* C30, as the claim states it: after any sequence of calls no account has a
\* balance above its initial one.
C30_BalanceNeverIncreases ==
    \A a \in DOMAIN accounts : accounts[a].balance <= InitialAccounts[a].balance

RECURSIVE ReceiptSum(_, _, _)
ReceiptSum(recs, ids, account_id) ==
    IF ids = {} THEN 0
    ELSE LET id == CHOOSE x \in ids : TRUE
         IN  (IF recs[id].fields.account_id = account_id THEN recs[id].fields.amount ELSE 0)
                + ReceiptSum(recs, ids \ {id}, account_id)

\* The balance of every account and the receipts recorded for it add up to
\* the account's initial balance.
BalancesAndReceiptsAddUp ==
    \A a \in DOMAIN accounts :
        accounts[a].balance + ReceiptSum(receipts, DOMAIN receipts, a)
            = InitialAccounts[a].balance

\* A call adds one receipt when it is a pay_service call that succeeded, and
\* none otherwise.
OneReceiptPerPayment ==
    Cardinality(DOMAIN receipts') =
        Cardinality(DOMAIN receipts) +
            (IF /\ last'.name = "pay_service" /\ last'.raised = ""
                /\ last'.result.fields.error_message = ""
             THEN 1 ELSE 0)

C33_ReadToolsChangeNothing ==
    last.name \in {"list_favorite_services", "get_balance", "get_latest_bill"} =>
        /\ accounts = last.accounts
        /\ receipts = last.receipts
        /\ last.raised = ""
        /\ (last.name = "list_favorite_services"
               /\ last.arguments["customer_id"] \notin DOMAIN CustomerFavorites) =>
                  last.result = PyList(<<>>)
        /\ (last.name = "get_balance" /\ last.arguments["account_id"] \notin DOMAIN accounts) =>
                  last.result.fields.error_message # ""
        /\ (last.name = "get_latest_bill"
               /\ <<last.arguments["customer_id"], last.arguments["service_id"]>>
                     \notin DOMAIN LatestBills) =>
                  last.result.fields.error_message # ""

W_C33_UnknownAccountAfterPayment ==
    /\ last.name = "get_balance"
    /\ last.arguments["account_id"] = "acct-999"
    /\ last.result.fields.error_message # ""
    /\ Cardinality(DOMAIN receipts) = 1
    /\ accounts["acct-123"].balance = 550

(***************************************************************************)
(* The funds check of the decision step and of pay_service (FundsSpec).    *)
(***************************************************************************)
\* C34: when decision sent on a state whose balance was the account's balance
\* at the time of the payment, the pay_service call made with the state's
\* account and the confirmed amount did not fail for insufficient funds.
C34_DecisionAndPayServiceAgree ==
    (/\ wfRan = <<"decision", "pay">>
     /\ last.name = "pay_service"
     /\ Get(wfLast.state.balance).Balance = last.accounts[wfLast.state.account_id].balance
     /\ last.arguments["amount"] = Get(wfLast.state.confirmation).Amount) =>
        last.result.fields.error_message # "Insufficient funds."

W_C34_AmountEqualsBalancePaid ==
    /\ wfRan = <<"decision", "pay">>
    /\ last.name = "pay_service"
    /\ last.arguments["amount"] = 2050
    /\ Get(wfLast.state.balance).Balance = 2050
    /\ last.accounts["acct-123"].balance = 2050
    /\ last.result.fields.error_message = ""
    /\ accounts["acct-123"].balance = 0

=============================================================================
